---- MODULE Spec2Model ----
(***************************************************************************)
(* NHL score predictor: the probability adjuster (calculateWinProb), the   *)
(* schedule analysis (isBackToBack, calculateRestDays), the goalie         *)
(* availability lookup (isStartingGoalieInjured) and the games route       *)
(* (convertToGameFormat and the GET handler with its batch scorer call).   *)
(*                                                                         *)
(* Numbers that may carry a fraction (probabilities) are kept in tenths.   *)
(* A Date is an instant in hours since 00:00 UTC of day 0, a date string   *)
(* "YYYY-MM-DD" is its day number, and the host's zone is a fixed offset   *)
(* tz = local - UTC in hours (no daylight-saving change inside a run).     *)
(***************************************************************************)
EXTENDS Integers, Sequences, FiniteSets, TLC

VARIABLES
    game,            \* calculateWinProb: the Game passed in, or NoGame
    winProb,         \* calculateWinProb: the number returned (0 before the call)
    data,            \* the scraped game log (allGames), a sequence of entries
    tz,              \* the host's offset from UTC in hours
    restTeam,        \* schedule analysis: the team asked about, or "none"
    restDay,         \* schedule analysis: the target date string (day number)
    restB2B,         \* schedule analysis: what isBackToBack returned
    restBucket,      \* schedule analysis: what calculateRestDays returned, or "none"
    injuredPlayers,  \* goalie lookup: the injury list passed in
    goalieTeam,      \* goalie lookup: the team asked about, or "none"
    goalieInjured,   \* goalie lookup: what isStartingGoalieInjured returned
    pc,              \* games route: "idle", "start", "predict" or "done"
    route,           \* games route: which copy of the route file serves the request
    reqTeam,         \* games route: the ?team= parameter, "" when absent
    upcoming,        \* games route: the ?upcoming=true parameter
    now,             \* games route: the instant of the request
    injuryCounts,    \* games route: team -> count read from nhl_injuries.json
    detailedInjuries,\* games route: team -> injured players read from the detailed file
    injuryFiles,     \* games route: which of the two injury files were found and parsed
    precomputed,     \* data/predictions.json as the generator script left it
    games,           \* games route: the Game list being built and returned
    scorerRun,       \* games route: what the scorer process did in this request
    spawnCount,      \* games route: how often predict_batch.py was started
    payload,         \* games route: the array written to the scorer's stdin
    status,          \* games route: the HTTP status answered, 0 before the answer
    cron,            \* daily-update endpoint: the request, the host and the run so far
    page,            \* Home page: loadGames and the component state it sets
    sim              \* SimulatorView: its game and winProb state and its refs

adjustVars == <<game, winProb>>
restVars == <<data, tz, restTeam, restDay, restB2B, restBucket>>
goalieVars == <<injuredPlayers, goalieTeam, goalieInjured>>
routeVars == <<pc, route, reqTeam, upcoming, now, injuryCounts, detailedInjuries,
               injuryFiles, precomputed, games, scorerRun, spawnCount, payload, status>>
appVars == <<cron, page, sim>>
vars == <<game, winProb, data, tz, restTeam, restDay, restB2B, restBucket,
          injuredPlayers, goalieTeam, goalieInjured,
          pc, route, reqTeam, upcoming, now, injuryCounts, detailedInjuries,
          injuryFiles, precomputed, games, scorerRun, spawnCount, payload, status,
          cron, page, sim>>

NoGame == [id |-> "none"]
\* a list that is undefined (the parameter is missing), and an empty one
NoList == [defined |-> FALSE, items |-> <<>>]
ListOf(items) == [defined |-> TRUE, items |-> items]

\* ------------------------------------------------------------------------
\* JavaScript numbers and dates
\* ------------------------------------------------------------------------

Max(a, b) == IF a >= b THEN a ELSE b
Min(a, b) == IF a <= b THEN a ELSE b

\* floor(a / b) for b > 0, whatever the sign of a
FloorDiv(a, b) == IF a >= 0 THEN a \div b ELSE -((-a + b - 1) \div b)

\* Math.round on a number given in tenths: the nearest integer, a half goes up
MathRoundNoHalf(t) == FloorDiv(t, 10)
MathRound(t) == FloorDiv(t + 5, 10)

\* new Date("YYYY-MM-DD"): a date-only string is read as 00:00 UTC of that day
DateParse(day) == day * 24

\* date.toISOString().split('T')[0]: the UTC calendar day of an instant
toISODate(t) == FloorDiv(t, 24)

\* date.setDate(date.getDate() + n): n local calendar days later, same local time
setDate(t, n) == t + 24 * n

\* date.setHours(0, 0, 0, 0): midnight of the local day, on a host at offset z
setHours0(t, z) == FloorDiv(t + z, 24) * 24 - z

\* ------------------------------------------------------------------------
\* JavaScript strings: a string is the sequence of its characters
\* ------------------------------------------------------------------------

LowerChar(c) ==
    CASE c = "W" -> "w"
      [] c = "S" -> "s"
      [] c = "I" -> "i"
      [] OTHER -> c

\* s.toLowerCase()
toLowerCase(s) == [i \in 1..Len(s) |-> LowerChar(s[i])]

\* s.includes(sub): sub occurs in s as a contiguous run (the empty string always does)
includes(s, sub) ==
    \E k \in 0..(Len(s) - Len(sub)) : SubSeq(s, k + 1, k + Len(sub)) = sub

\* s.split(',')[0]: the part of s before its first comma, all of s without one
splitComma0(s) ==
    IF \E i \in 1..Len(s) : s[i] = ","
    THEN LET first == CHOOSE i \in 1..Len(s) :
                        s[i] = "," /\ \A j \in 1..(i - 1) : s[j] # ","
         IN  SubSeq(s, 1, first - 1)
    ELSE s

\* s.trim(): s without its leading and trailing white space
trim(s) ==
    IF \A i \in 1..Len(s) : s[i] = " " THEN <<>>
    ELSE LET lo == CHOOSE i \in 1..Len(s) :
                     s[i] # " " /\ \A j \in 1..(i - 1) : s[j] = " "
             hi == CHOOSE i \in 1..Len(s) :
                     s[i] # " " /\ \A j \in (i + 1)..Len(s) : s[j] = " "
         IN  SubSeq(s, lo, hi)

\* ------------------------------------------------------------------------
\* Goalie availability
\* ------------------------------------------------------------------------

\* STARTING_GOALIES[team] || []: the rows of the table used here; any other
\* team of the model has no row
STARTING_GOALIES(team) ==
    CASE team = "TOR" -> << <<"w","o","l","l">>, <<"s","a","m","s","o","n","o","v">> >>
      [] team = "VEG" -> << <<"h","i","l","l">>, <<"t","h","o","m","p","s","o","n">> >>
      [] team = "MTL" -> << <<"m","o","n","t","e","m","b","e","a","u","l","t">>,
                            <<"p","r","i","m","e","a","u">> >>
      [] team = "BOS" -> << <<"s","w","a","y","m","a","n">>, <<"u","l","l","m","a","r","k">> >>
      [] OTHER -> <<>>

\* the test some() applies to one injured player
matchesStarterWholeName(starterName, injured) ==
    LET playerName == toLowerCase(injured.player)
    IN  \/ includes(playerName, starterName)
        \/ includes(starterName, playerName)

matchesStarter(starterName, injured) ==
    LET playerName == toLowerCase(injured.player)
    IN  \/ includes(playerName, starterName)
        \/ includes(starterName, toLowerCase(trim(splitComma0(playerName))))

isAnyGoalieInjured(injured, team) ==
    IF ~injured.defined \/ Len(injured.items) = 0 THEN FALSE
    ELSE LET goalies == STARTING_GOALIES(team)
         IN  \E g \in 1..Len(goalies), i \in 1..Len(injured.items) :
                 matchesStarter(toLowerCase(goalies[g]), injured.items[i])

isStartingGoalieInjured(injured, team) ==
    IF ~injured.defined \/ Len(injured.items) = 0 THEN FALSE
    ELSE LET goalies == STARTING_GOALIES(team)
         IN  IF Len(goalies) = 0 THEN FALSE
             ELSE LET starterName == toLowerCase(goalies[1])
                  IN  \E i \in 1..Len(injured.items) :
                          matchesStarter(starterName, injured.items[i])

\* ------------------------------------------------------------------------
\* Schedule analysis
\* ------------------------------------------------------------------------

\* a log entry: [team, opponent, date, game_location, result]; an entry
\* has been played iff its result is a non-empty string
Played(g) == g.result # ""

isBackToBackAnyTeam(d, team, gameDate) ==
    LET previousDay == setDate(gameDate, -1)
        prevDateStr == toISODate(previousDay)
    IN  \E i \in 1..Len(d) : d[i].date = prevDateStr /\ Played(d[i])

recentGamesAnyTeam(d, team, gameDate) ==
    LET sixDaysAgo == setDate(gameDate, -6)
    IN  { i \in 1..Len(d) :
            /\ Played(d[i])
            /\ DateParse(d[i].date) >= sixDaysAgo
            /\ DateParse(d[i].date) < gameDate }

isBackToBack(d, team, gameDate) ==
    LET previousDay == setDate(gameDate, -1)
        prevDateStr == toISODate(previousDay)
    IN  \E i \in 1..Len(d) :
            d[i].team = team /\ d[i].date = prevDateStr /\ Played(d[i])

\* the indices filter() keeps: played entries of the team in the trailing window
recentGames(d, team, gameDate) ==
    LET sixDaysAgo == setDate(gameDate, -6)
    IN  { i \in 1..Len(d) :
            /\ d[i].team = team
            /\ Played(d[i])
            /\ DateParse(d[i].date) >= sixDaysAgo
            /\ DateParse(d[i].date) < gameDate }

calculateRestDaysCountFirst(d, team, gameDate) ==
    LET gameCount == Cardinality(recentGames(d, team, gameDate))
    IN  IF gameCount >= 4 THEN "four-in-six"
        ELSE IF gameCount >= 3 THEN "three-in-four"
        ELSE IF isBackToBack(d, team, gameDate) THEN "back-to-back"
        ELSE "fresh"

\* the back-to-back test is left out of the bucket
calculateRestDaysNoFlag(d, team, gameDate) ==
    LET gameCount == Cardinality(recentGames(d, team, gameDate))
    IN  IF gameCount >= 4 THEN "four-in-six"
        ELSE IF gameCount >= 3 THEN "three-in-four"
        ELSE "fresh"

calculateRestDays(d, team, gameDate) ==
    LET gameCount == Cardinality(recentGames(d, team, gameDate))
    IN  IF isBackToBack(d, team, gameDate) THEN "back-to-back"
        ELSE IF gameCount >= 4 THEN "four-in-six"
        ELSE IF gameCount >= 3 THEN "three-in-four"
        ELSE "fresh"

\* ------------------------------------------------------------------------
\* calculateWinProb
\* ------------------------------------------------------------------------

GoalieTypes == {"starter", "backup", "third-string"}
RestStatuses == {"fresh", "back-to-back", "three-in-four", "four-in-six"}

\* a third-string goalie costs no more than a backup
goalieAdjustmentsNoThird(g) == IF g = "starter" THEN 0 ELSE -8

goalieAdjustments(g) ==
    CASE g = "starter" -> 0
      [] g = "backup" -> -8
      [] g = "third-string" -> -15

restAdjustments(r) ==
    CASE r = "fresh" -> 0
      [] r = "back-to-back" -> -5
      [] r = "three-in-four" -> -8
      [] r = "four-in-six" -> -12

\* injuries counted as present or absent instead of per player
unclampedProbInjuryFlag(g) ==
    g.baseWinProb
      + goalieAdjustments(g.homeGoalie) - goalieAdjustments(g.awayGoalie)
      + restAdjustments(g.homeRestDays) - restAdjustments(g.awayRestDays)
      - Min(1, g.homeInjuries) * 3 + Min(1, g.awayInjuries) * 3
      - (IF g.isHomeBackToBack THEN 2 ELSE 0)
      + (IF g.isAwayBackToBack THEN 2 ELSE 0)

\* the away side's back-to-back flag is left out
unclampedProbNoAwayFlag(g) ==
    g.baseWinProb
      + goalieAdjustments(g.homeGoalie) - goalieAdjustments(g.awayGoalie)
      + restAdjustments(g.homeRestDays) - restAdjustments(g.awayRestDays)
      - g.homeInjuries * 3 + g.awayInjuries * 3
      - (IF g.isHomeBackToBack THEN 2 ELSE 0)

\* the value of prob before the clamp, in whole points
unclampedProb(g) ==
    g.baseWinProb
      + goalieAdjustments(g.homeGoalie) - goalieAdjustments(g.awayGoalie)
      + restAdjustments(g.homeRestDays) - restAdjustments(g.awayRestDays)
      - g.homeInjuries * 3 + g.awayInjuries * 3
      - (IF g.isHomeBackToBack THEN 2 ELSE 0)
      + (IF g.isAwayBackToBack THEN 2 ELSE 0)

clampNoFloor(p) == Min(95, p)
clamp(p) == Max(5, Min(95, p))

\* the integer returned: the result is a whole number of points
calculateWinProb(g) == MathRound(10 * clamp(unclampedProb(g)))

\* ------------------------------------------------------------------------
\* Games route: convertToGameFormat
\* ------------------------------------------------------------------------

GameHour == 19          \* const time = '19:00'
UpcomingWindow == 48    \* in48Hours = now + 48 * 60 * 60 * 1000

\* new Date(`${date}T${time}`): a date-time string without a zone is local time
DateTimeParse(day, hour, z) == day * 24 + hour - z

\* `game-${date}-${awayTeam}-${homeTeam}` and the gameMap key `${date}-${away}-${home}`
GameId(day, awayTeam, homeTeam) == <<"game", day, awayTeam, homeTeam>>
GameKey(g) == <<g.date, g.awayTeam, g.homeTeam>>

\* map[team] || fallback, for the two injury maps
Lookup(map, team, fallback) == IF team \in DOMAIN map THEN map[team] ELSE fallback

\* gameDate of convertToGameFormat: the parsed date string moved to local midnight
LocalMidnightOfDate(day, z) == setHours0(DateParse(day), z)

\* the tests an entry passes before a Game is built from it
IsUpcomingEntry(g, team, nowT, z) ==
    /\ g.team = team
    /\ g.opponent # ""
    /\ ~Played(g)
    /\ ~(LocalMidnightOfDate(g.date, z) <= setHours0(nowT, z))

\* a list is attached to every game, an empty one included
attachedListAlways(players, count) == ListOf(players)

\* players.length > 0 ? players : (count > 0 ? [] : undefined)
attachedList(players, count) ==
    IF Len(players) > 0 THEN ListOf(players)
    ELSE IF count > 0 THEN ListOf(<<>>) ELSE NoList

\* the Game pushed for one entry
GameOfEntry(d, g, team, counts, detailed, z) ==
    LET gameDate == LocalMidnightOfDate(g.date, z)
        isHome == g.game_location # "@"
        homeTeam == IF isHome THEN team ELSE g.opponent
        awayTeam == IF isHome THEN g.opponent ELSE team
        homeInjuries == Lookup(counts, homeTeam, 0)
        awayInjuries == Lookup(counts, awayTeam, 0)
        homeInjuredPlayers == Lookup(detailed, homeTeam, <<>>)
        awayInjuredPlayers == Lookup(detailed, awayTeam, <<>>)
    IN  [ id |-> GameId(g.date, awayTeam, homeTeam),
          homeTeam |-> homeTeam, awayTeam |-> awayTeam,
          date |-> g.date, time |-> GameHour,
          homeGoalie |-> IF isStartingGoalieInjured(ListOf(homeInjuredPlayers), homeTeam)
                         THEN "backup" ELSE "starter",
          awayGoalie |-> IF isStartingGoalieInjured(ListOf(awayInjuredPlayers), awayTeam)
                         THEN "backup" ELSE "starter",
          isHomeBackToBack |-> isBackToBack(d, homeTeam, gameDate),
          isAwayBackToBack |-> isBackToBack(d, awayTeam, gameDate),
          homeRestDays |-> calculateRestDays(d, homeTeam, gameDate),
          awayRestDays |-> calculateRestDays(d, awayTeam, gameDate),
          homeInjuries |-> homeInjuries,
          awayInjuries |-> awayInjuries,
          homeInjuredPlayers |-> attachedList(homeInjuredPlayers, homeInjuries),
          awayInjuredPlayers |-> attachedList(awayInjuredPlayers, awayInjuries),
          baseWinProb |-> 50, currentWinProb |-> 50 ]

RECURSIVE convertFrom(_, _, _, _, _, _, _)
convertFrom(d, i, team, counts, detailed, nowT, z) ==
    IF i > Len(d) THEN <<>>
    ELSE (IF IsUpcomingEntry(d[i], team, nowT, z)
          THEN <<GameOfEntry(d, d[i], team, counts, detailed, z)>>
          ELSE <<>>)
         \o convertFrom(d, i + 1, team, counts, detailed, nowT, z)

\* data.forEach(...): one Game per entry that passes, in the order of the log
convertToGameFormat(d, team, counts, detailed, nowT, z) ==
    convertFrom(d, 1, team, counts, detailed, nowT, z)

\* ------------------------------------------------------------------------
\* Games route: collecting, filtering and sorting the games
\* ------------------------------------------------------------------------

\* the Set of g.team, in insertion order
RECURSIVE teamsFrom(_, _, _)
teamsFrom(d, i, seen) ==
    IF i > Len(d) THEN <<>>
    ELSE IF d[i].team \in seen THEN teamsFrom(d, i + 1, seen)
    ELSE <<d[i].team>> \o teamsFrom(d, i + 1, seen \cup {d[i].team})

\* the games of every team one after the other, before gameMap
RECURSIVE gamesOfTeams(_, _, _, _, _, _, _)
gamesOfTeams(d, teams, i, counts, detailed, nowT, z) ==
    IF i > Len(teams) THEN <<>>
    ELSE convertToGameFormat(d, teams[i], counts, detailed, nowT, z)
         \o gamesOfTeams(d, teams, i + 1, counts, detailed, nowT, z)

\* every game of every team is kept
uniqueFromKeepAll(gs, i, keys) == gs

\* gameMap: the first game of each key is kept, in insertion order
RECURSIVE uniqueFrom(_, _, _)
uniqueFrom(gs, i, keys) ==
    IF i > Len(gs) THEN <<>>
    ELSE IF GameKey(gs[i]) \in keys THEN uniqueFrom(gs, i + 1, keys)
    ELSE <<gs[i]>> \o uniqueFrom(gs, i + 1, keys \cup {GameKey(gs[i])})

StartTime(g, z) == DateTimeParse(g.date, g.time, z)

\* games.filter(...) of either branch
filterGames(gs, up, nowT, z) ==
    SelectSeq(gs, LAMBDA g :
        /\ StartTime(g, z) > nowT
        /\ up => StartTime(g, z) <= nowT + UpcomingWindow)

\* games.sort by start time (Array.prototype.sort is stable)
RECURSIVE insertSorted(_, _, _)
insertSorted(sorted, g, z) ==
    IF sorted = <<>> THEN <<g>>
    ELSE IF StartTime(sorted[Len(sorted)], z) <= StartTime(g, z) THEN Append(sorted, g)
    ELSE Append(insertSorted(SubSeq(sorted, 1, Len(sorted) - 1), g, z), sorted[Len(sorted)])

RECURSIVE sortFrom(_, _, _, _)
sortFrom(gs, i, acc, z) ==
    IF i > Len(gs) THEN acc ELSE sortFrom(gs, i + 1, insertSorted(acc, gs[i], z), z)

\* the games are left in the order they were collected in
sortGamesNone(gs, z) == gs

sortGames(gs, z) == sortFrom(gs, 1, <<>>, z)

\* lines 406-467: the games of the request, filtered and sorted
collectGames(d, team, up, counts, detailed, nowT, z) ==
    LET converted ==
          IF team # "" THEN convertToGameFormat(d, team, counts, detailed, nowT, z)
          ELSE uniqueFrom(gamesOfTeams(d, teamsFrom(d, 1, {}), 1, counts, detailed, nowT, z), 1, {})
    IN  sortGames(filterGames(converted, up, nowT, z), z)

\* ------------------------------------------------------------------------
\* Games route: the batch scorer call
\* ------------------------------------------------------------------------

\* The text a scorer run leaves is a sequence of segments: diagnostic text
\* without braces ("txt"), with an opening brace ("lb") or a closing brace
\* ("rb"), a JSON literal that is no object ("null", "num"), or one well-formed
\* JSON object keyed by game id ("obj", with its entries).
NoEntries == [id \in {} |-> 0]
Seg(kind) == [kind |-> kind, entries |-> NoEntries]
ObjSeg(entries) == [kind |-> "obj", entries |-> entries]

HasOpen(seg) == seg.kind \in {"lb", "obj"}
HasClose(seg) == seg.kind \in {"rb", "obj"}

SetMin(S) == CHOOSE x \in S : \A y \in S : x <= y
SetMax(S) == CHOOSE x \in S : \A y \in S : x >= y

ParseFailed == [ok |-> FALSE, kind |-> "none", entries |-> NoEntries]
ParsedAs(seg) ==
    [ok |-> TRUE, kind |-> IF seg.kind = "obj" THEN "object" ELSE seg.kind, entries |-> seg.entries]

\* JSON.parse(result.trim()): the whole output must be one JSON value
parseWhole(out) ==
    IF Len(out) = 1 /\ out[1].kind \in {"obj", "null", "num"} THEN ParsedAs(out[1])
    ELSE ParseFailed

\* lines 559-578: /\{[\s\S]*\}/ takes the text from the first '{' to the last
\* '}', which parses iff it is exactly one object; without a match the whole
\* trimmed output is parsed, and an empty output throws
extractAndParse(out) ==
    LET opens == { i \in 1..Len(out) : HasOpen(out[i]) }
        closes == { i \in 1..Len(out) : HasClose(out[i]) }
    IN  IF opens # {} /\ closes # {} /\ SetMin(opens) <= SetMax(closes)
        THEN IF SetMin(opens) = SetMax(closes) THEN ParsedAs(out[SetMin(opens)])
             ELSE ParseFailed
        ELSE IF Len(out) = 0 THEN ParseFailed
        ELSE parseWhole(out)

\* prediction && prediction.success && typeof prediction.win_probability === 'number'
validPredictionNoSuccess(predictions, id) ==
    /\ id \in DOMAIN predictions
    /\ predictions[id].numeric

validPrediction(predictions, id) ==
    /\ id \in DOMAIN predictions
    /\ predictions[id].success
    /\ predictions[id].numeric

\* games.forEach(game => ...): lines 585-602 and 445-453
applyFirstToAll(gs, predictions) ==
    [ i \in 1..Len(gs) |->
        IF validPrediction(predictions, gs[1].id)
        THEN [gs[i] EXCEPT !.baseWinProb = MathRound(predictions[gs[1].id].wp),
                           !.currentWinProb = MathRound(predictions[gs[1].id].wp)]
        ELSE gs[i] ]

\* the games are rebuilt with the prediction and lose their injured-player lists
applyPredictionsLosingLists(gs, predictions) ==
    [ i \in 1..Len(gs) |->
        IF validPrediction(predictions, gs[i].id)
        THEN [gs[i] EXCEPT !.baseWinProb = MathRound(predictions[gs[i].id].wp),
                           !.currentWinProb = MathRound(predictions[gs[i].id].wp),
                           !.homeInjuredPlayers = NoList,
                           !.awayInjuredPlayers = NoList]
        ELSE gs[i] ]

applyPredictions(gs, predictions) ==
    [ i \in 1..Len(gs) |->
        IF validPrediction(predictions, gs[i].id)
        THEN [gs[i] EXCEPT !.baseWinProb = MathRound(predictions[gs[i].id].wp),
                           !.currentWinProb = MathRound(predictions[gs[i].id].wp)]
        ELSE gs[i] ]

\* execError.toString(): "Error: Command failed: ..." when nothing was captured
ErrorText == <<Seg("txt")>>

\* result after the inner try/catch of lines 515-549
capturedResult(run) ==
    IF run.exit = "ok" THEN run.out
    ELSE IF run.out # <<>> THEN run.out ELSE ErrorText

\* the games after the batch prediction section of the current route file
predictCurrent(gs, run) ==
    IF Len(gs) = 0 \/ ~run.script THEN gs
    ELSE LET parsed == extractAndParse(capturedResult(run))
         IN  IF parsed.ok /\ parsed.kind = "object"
             THEN applyPredictions(gs, parsed.entries)
             ELSE gs

\* the same section of the older copy: execSync throwing skips everything, and
\* the output is parsed whole
predictLegacy(gs, run) ==
    IF Len(gs) = 0 \/ ~run.script \/ run.exit # "ok" THEN gs
    ELSE LET parsed == parseWhole(run.out)
         IN  IF parsed.ok /\ parsed.kind = "object"
             THEN applyPredictions(gs, parsed.entries)
             ELSE gs

\* gamesForPrediction: one {id, homeTeam, awayTeam} per game, in order
gamesForPrediction(gs) ==
    [ i \in 1..Len(gs) |->
        [id |-> gs[i].id, homeTeam |-> gs[i].homeTeam, awayTeam |-> gs[i].awayTeam] ]

\* how often the section starts predict_batch.py
spawnsPerGame(gs, run) == IF run.script THEN Len(gs) ELSE 0
spawns(gs, run) == IF Len(gs) > 0 /\ run.script THEN 1 ELSE 0

\* ------------------------------------------------------------------------
\* The parts of the state a specification does not use
\* ------------------------------------------------------------------------

AdjustIdle == game = NoGame /\ winProb = 0

RestIdle == restTeam = "none" /\ restDay = 0 /\ restB2B = FALSE /\ restBucket = "none"

GoalieIdle == injuredPlayers = NoList /\ goalieTeam = "none" /\ goalieInjured = FALSE

NoTeamMap == [t \in {} |-> 0]
NoInjuryFiles == [counts |-> FALSE, detailed |-> FALSE]
NoFile == [exists |-> FALSE, entries |-> NoTeamMap]
NoRun == [script |-> FALSE, exit |-> "none", out |-> <<>>]

RouteIdle ==
    /\ pc = "idle"
    /\ route = "none"
    /\ reqTeam = ""
    /\ upcoming = FALSE
    /\ now = 0
    /\ injuryCounts = NoTeamMap
    /\ detailedInjuries = NoTeamMap
    /\ injuryFiles = NoInjuryFiles
    /\ precomputed = NoFile
    /\ games = <<>>
    /\ scorerRun = NoRun
    /\ spawnCount = 0
    /\ payload = <<>>
    /\ status = 0

\* the endpoint, the page and the simulator before anything has happened
CronIdle ==
    [pc |-> "idle", authHeader |-> "null", cronSecret |-> "undefined", files |-> {},
     pyExec |-> "none", nodeExec |-> "none", ran |-> <<>>,
     results |-> [success |-> TRUE, steps |-> <<>>], status |-> 0]

HomeIdle ==
    [pc |-> "idle", api |-> "none", response |-> "none", injuryResponse |-> "none",
     mock |-> <<>>, isLoading |-> TRUE, upcomingGames |-> <<>>]

SimIdle ==
    [pc |-> "idle", game |-> NoGame, winProb |-> 0, prevWinProbRef |-> 0,
     isUpdatingRef |-> FALSE]

AppIdle == cron = CronIdle /\ page = HomeIdle /\ sim = SimIdle

\* ------------------------------------------------------------------------
\* Bounds
\* ------------------------------------------------------------------------

BaseSlack == 30       \* base probabilities range over -BaseSlack .. 100 + BaseSlack
MaxInjuries == 2      \* injury counts range over 0 .. MaxInjuries

Bases == { b \in (0 - BaseSlack)..(100 + BaseSlack) : b % 5 = 0 \/ b < 12 \/ b > 88 }

AdjustInputs ==
    [ id : {"g"},
      baseWinProb : Bases,
      homeGoalie : GoalieTypes, awayGoalie : GoalieTypes,
      homeRestDays : RestStatuses, awayRestDays : RestStatuses,
      homeInjuries : 0..MaxInjuries, awayInjuries : 0..MaxInjuries,
      isHomeBackToBack : BOOLEAN, isAwayBackToBack : BOOLEAN ]

\* ------------------------------------------------------------------------
\* The adjuster called on an arbitrary Game
\* ------------------------------------------------------------------------

InitAdjust ==
    /\ AppIdle
    /\ AdjustIdle
    /\ data = <<>>
    /\ tz = 0
    /\ RestIdle
    /\ GoalieIdle
    /\ RouteIdle

CallCalculateWinProb ==
    /\ game = NoGame
    /\ \E g \in AdjustInputs :
         /\ game' = g
         /\ winProb' = calculateWinProb(g)
    /\ UNCHANGED appVars
    /\ UNCHANGED <<restVars, goalieVars, routeVars>>

NextAdjust == CallCalculateWinProb

SpecAdjust == InitAdjust /\ [][NextAdjust]_vars

\* C1: calculateWinProb returns an integer v with 5 <= v <= 95 for every Game
\* with an integer base, any goalie tiers, rest buckets, injury counts and
\* back-to-back flags.
C1_WinProbInRange ==
    game # NoGame => winProb \in 5..95

\* a call whose unclamped value lies outside 5..95 on either side was made
C1_Witness ==
    /\ game # NoGame
    /\ unclampedProb(game) > 95
    /\ winProb = 95

\* ------------------------------------------------------------------------
\* The schedule analysis called on an arbitrary log
\* ------------------------------------------------------------------------

MaxDay == 7           \* log dates range over days 0 .. MaxDay

RestTeams == {"TOR", "MTL", "BOS"}
EntryStates == {"none", "played", "scheduled"}

Entry(team, opp, day, loc, res) ==
    [team |-> team, opponent |-> opp, date |-> day, game_location |-> loc, result |-> res]

\* the entries of one team, one per day with a state other than "none", by day
RECURSIVE TeamLog(_, _, _, _)
TeamLog(team, opp, f, day) ==
    IF day > MaxDay THEN <<>>
    ELSE (IF f[day] = "none" THEN <<>>
          ELSE <<Entry(team, opp, day, "", IF f[day] = "played" THEN "W" ELSE "")>>)
         \o TeamLog(team, opp, f, day + 1)

\* TOR: any mix of played and scheduled days; MTL: nothing, or one game played
\* the day before the last day; BOS: never in the log
RestLogs ==
    { TeamLog("TOR", "MTL", f, 0) \o m :
        f \in [0..MaxDay -> EntryStates],
        m \in {<<>>, <<Entry("MTL", "TOR", MaxDay - 1, "@", "L")>>} }

RestTargets == {MaxDay - 1, MaxDay}

InitRest ==
    /\ AppIdle
    /\ AdjustIdle
    /\ data \in RestLogs
    /\ tz = 0
    /\ RestIdle
    /\ GoalieIdle
    /\ RouteIdle

CallIsBackToBack ==
    /\ restTeam = "none"
    /\ \E team \in RestTeams, day \in RestTargets :
         /\ restTeam' = team
         /\ restDay' = day
         /\ restB2B' = isBackToBack(data, team, DateParse(day))
    /\ UNCHANGED appVars
    /\ UNCHANGED <<game, winProb, data, tz, restBucket, goalieVars, routeVars>>

CallCalculateRestDays ==
    /\ restTeam # "none"
    /\ restBucket = "none"
    /\ restBucket' = calculateRestDays(data, restTeam, DateParse(restDay))
    /\ UNCHANGED appVars
    /\ UNCHANGED <<game, winProb, data, tz, restTeam, restDay, restB2B, goalieVars, routeVars>>

NextRest == CallIsBackToBack \/ CallCalculateRestDays

SpecRest == InitRest /\ [][NextRest]_vars

\* played entries of a team on one calendar day of the log's date strings
PlayedOn(d, team, day) ==
    { i \in 1..Len(d) : d[i].team = team /\ d[i].date = day /\ Played(d[i]) }

\* played entries of a team on the days from..to of the log's date strings
PlayedBetween(d, team, from, to) ==
    { i \in 1..Len(d) : d[i].team = team /\ d[i].date \in from..to /\ Played(d[i]) }

\* C6: isBackToBack(log, team, date) is true iff the log has an entry of that
\* team dated exactly the calendar day before the target date with a result;
\* other teams' entries, other days and scheduled entries never make it true,
\* and a single played entry of the team on the day before the target date
\* makes calculateRestDays return 'back-to-back'.
C6_BackToBackIffPlayedYesterday ==
    /\ restTeam # "none" =>
         (restB2B <=> PlayedOn(data, restTeam, restDay - 1) # {})
    /\ (/\ restBucket # "none"
        /\ Len(data) = 1
        /\ PlayedOn(data, restTeam, restDay - 1) = {1})
       => restBucket = "back-to-back"

\* the spec's example: the log is one played entry of the team, dated the day
\* before the target date, and both functions have answered
C6_Witness ==
    /\ restBucket = "back-to-back"
    /\ restB2B
    /\ Len(data) = 1
    /\ data[1].team = restTeam
    /\ data[1].date = restDay - 1

\* C7: calculateRestDays returns 'back-to-back' whenever isBackToBack is true,
\* whatever the count of played games in the trailing window; otherwise
\* 'four-in-six' for a count of at least 4 played entries of the team dated
\* from six days before up to the day before the target date, 'three-in-four'
\* for exactly 3, and 'fresh' otherwise.
C7_RestBucketPrecedence ==
    restBucket # "none" =>
        LET count == Cardinality(PlayedBetween(data, restTeam, restDay - 6, restDay - 1))
        IN  restBucket =
              IF restB2B THEN "back-to-back"
              ELSE IF count >= 4 THEN "four-in-six"
              ELSE IF count = 3 THEN "three-in-four"
              ELSE "fresh"

\* back-to-back wins over a window that holds four or more played games
C7_Witness ==
    /\ restBucket = "back-to-back"
    /\ Cardinality(PlayedBetween(data, restTeam, restDay - 6, restDay - 1)) >= 4

\* C9: for a team with no entry at all in the log, isBackToBack returns false
\* and calculateRestDays returns 'fresh' for every target date.
C9_AbsentTeamIsFresh ==
    (restTeam # "none" /\ \A i \in 1..Len(data) : data[i].team # restTeam) =>
        /\ ~restB2B
        /\ restBucket \in {"none", "fresh"}

\* a team absent from a log in which other teams played the day before
C9_Witness ==
    /\ restTeam = "BOS"
    /\ restBucket = "fresh"
    /\ ~restB2B
    /\ \E i \in 1..Len(data) : data[i].date = restDay - 1 /\ Played(data[i])

\* ------------------------------------------------------------------------
\* The goalie lookup called on an arbitrary injury list
\* ------------------------------------------------------------------------

MaxNameLen == 5       \* enumerated player names have at most MaxNameLen characters

NameChars == {"w", "o", "l", "W", ",", " "}

RECURSIVE NamesOfLen(_)
NamesOfLen(n) ==
    IF n = 0 THEN {<<>>}
    ELSE { Append(s, c) : s \in NamesOfLen(n - 1), c \in NameChars }

ShortNames == UNION { NamesOfLen(n) : n \in 0..MaxNameLen }

\* "Samsonov, I": the second TOR goalie, and a skater of no interest
BackupName == <<"S","a","m","s","o","n","o","v",","," ","I">>
SkaterName == <<"o","l","o">>

InjuredPlayer(name) == [player |-> name]

InjuryLists ==
    {NoList, ListOf(<<>>)}
      \cup { ListOf(<<InjuredPlayer(n)>>) : n \in ShortNames \cup {BackupName} }
      \cup { ListOf(<<InjuredPlayer(a), InjuredPlayer(b)>>) :
               a \in {BackupName, SkaterName}, b \in NamesOfLen(4) }

GoalieTeams == {"TOR", "VEG", "QUE"}

InitGoalie ==
    /\ AppIdle
    /\ AdjustIdle
    /\ data = <<>>
    /\ tz = 0
    /\ RestIdle
    /\ injuredPlayers \in InjuryLists
    /\ goalieTeam = "none"
    /\ goalieInjured = FALSE
    /\ RouteIdle

CallIsStartingGoalieInjured ==
    /\ goalieTeam = "none"
    /\ \E team \in GoalieTeams :
         /\ goalieTeam' = team
         /\ goalieInjured' = isStartingGoalieInjured(injuredPlayers, team)
    /\ UNCHANGED appVars
    /\ UNCHANGED <<adjustVars, restVars, injuredPlayers, routeVars>>

NextGoalie == CallIsStartingGoalieInjured

SpecGoalie == InitGoalie /\ [][NextGoalie]_vars

HasRoster(team) == Len(STARTING_GOALIES(team)) > 0
NoInjuries(l) == ~l.defined \/ Len(l.items) = 0

\* C10 as stated: false without a roster row or without injuries; otherwise true
\* exactly when, for some injured player, the lower-cased player name contains
\* the lower-cased starter name or the starter name contains the player name.
C10_Original ==
    goalieTeam # "none" =>
        goalieInjured =
          IF ~HasRoster(goalieTeam) \/ NoInjuries(injuredPlayers) THEN FALSE
          ELSE \E i \in 1..Len(injuredPlayers.items) :
                 LET p == toLowerCase(injuredPlayers.items[i].player)
                     st == toLowerCase(STARTING_GOALIES(goalieTeam)[1])
                 IN  includes(p, st) \/ includes(st, p)

\* C10 (amended): false without a roster row or without injuries; otherwise true
\* exactly when, for some injured player, the lower-cased player name contains
\* the lower-cased starter name, or the starter name contains the part of the
\* lower-cased player name before its first comma with the white space around
\* it removed; a match on a non-first roster goalie alone does not make it true.
C10_StarterMatchOnLastName ==
    goalieTeam # "none" =>
        goalieInjured =
          IF ~HasRoster(goalieTeam) \/ NoInjuries(injuredPlayers) THEN FALSE
          ELSE \E i \in 1..Len(injuredPlayers.items) :
                 LET p == toLowerCase(injuredPlayers.items[i].player)
                     st == toLowerCase(STARTING_GOALIES(goalieTeam)[1])
                     cut == IF \E k \in 1..Len(p) : p[k] = ","
                            THEN SubSeq(p, 1, (CHOOSE k \in 1..Len(p) :
                                     p[k] = "," /\ \A j \in 1..(k - 1) : p[j] # ",") - 1)
                            ELSE p
                 IN  \/ includes(p, st)
                     \/ \E a \in 1..(Len(cut) + 1), b \in 0..Len(cut) :
                          /\ a <= b + 1
                          /\ \A j \in 1..(a - 1) : cut[j] = " "
                          /\ \A j \in (b + 1)..Len(cut) : cut[j] = " "
                          /\ a <= b => (cut[a] # " " /\ cut[b] # " ")
                          /\ includes(st, SubSeq(cut, a, b))

\* the starter is matched through the part of the name before the comma only:
\* neither whole name contains the other
C10_Witness ==
    /\ goalieTeam = "TOR"
    /\ goalieInjured
    /\ injuredPlayers.defined
    /\ Len(injuredPlayers.items) = 1
    /\ LET p == toLowerCase(injuredPlayers.items[1].player)
       IN  /\ Len(p) > 0
           /\ ~includes(p, <<"w","o","l","l">>)
           /\ ~includes(<<"w","o","l","l">>, p)

\* ------------------------------------------------------------------------
\* The games route serving one request
\* ------------------------------------------------------------------------

NowHour == 12         \* the request arrives at NowHour:00 UTC of day Today

Today == MaxDay
TzOffsets == {-5, 0, 2}

\* the two rows the scraper keeps of one fixture: the home team's and the away
\* team's ('@')
Fixture(day, home, away, played) ==
    << Entry(home, away, day, "", IF played THEN "W" ELSE ""),
       Entry(away, home, day, "@", IF played THEN "L" ELSE "") >>

\* what the log file may hold: TOR played BOS yesterday and/or today, and
\* TOR and MTL meet today, tomorrow and/or the day after; the rows of the log
\* are not in date order
FixturePool ==
    << Fixture(Today + 2, "MTL", "TOR", FALSE),
       Fixture(Today - 1, "BOS", "TOR", TRUE),
       Fixture(Today, "TOR", "BOS", TRUE),
       Fixture(Today, "TOR", "MTL", FALSE),
       Fixture(Today + 1, "TOR", "MTL", FALSE) >>

RECURSIVE LogOf(_, _)
LogOf(S, i) ==
    IF i > Len(FixturePool) THEN <<>>
    ELSE (IF i \in S THEN FixturePool[i] ELSE <<>>) \o LogOf(S, i + 1)

RouteLogs == { LogOf(S, 1) : S \in SUBSET (1..Len(FixturePool)) }

WollName == <<"W","o","l","l",","," ","J">>

PrimeauName == <<"p","r","i","m","e","a","u">>

\* nhl_injuries.json: not found or not parseable, or team -> count
NoCountsFile == [readable |-> FALSE, content |-> NoTeamMap]

CountsFiles ==
    { NoCountsFile,
      [readable |-> TRUE, content |-> [t \in {"TOR", "MTL"} |-> IF t = "TOR" THEN 2 ELSE 1]] }

\* nhl_injuries_detailed.json: not found or not parseable, or one record per
\* injured player, here two TOR players with the starter among them and the MTL
\* backup
NoDetailedFile == [readable |-> FALSE, content |-> <<>>]

DetailedFiles ==
    { NoDetailedFile,
      [readable |-> TRUE,
       content |-> << [team |-> "TOR", player |-> SkaterName],
                      [team |-> "MTL", player |-> PrimeauName],
                      [team |-> "TOR", player |-> WollName] >>] }

\* lines 341-353: injuryCounts stays {} unless the file is found and parses
loadInjuryCounts(file) == IF file.readable THEN file.content ELSE NoTeamMap

\* lines 356-404: the records are grouped by team in the order of the file;
\* detailedInjuries stays {} unless the file is found and parses
RECURSIVE groupInjuries(_, _, _)
groupInjuries(injuries, i, acc) ==
    IF i > Len(injuries) THEN acc
    ELSE LET team == injuries[i].team
             sofar == IF team \in DOMAIN acc THEN acc[team] ELSE <<>>
         IN  groupInjuries(injuries, i + 1,
                 [t \in DOMAIN acc \cup {team} |->
                     IF t = team THEN Append(sofar, InjuredPlayer(injuries[i].player))
                     ELSE acc[t]])

loadDetailedInjuries(file) ==
    IF file.readable THEN groupInjuries(file.content, 1, NoTeamMap) ELSE NoTeamMap

\* what the two injury files hold
InjuryWorlds == [counts : CountsFiles, detailed : DetailedFiles]

\* the ids the generator script writes for the fixtures not yet played
PoolIds ==
    { GameId(FixturePool[i][1].date, FixturePool[i][1].opponent, FixturePool[i][1].team) :
        i \in { j \in 1..Len(FixturePool) : ~Played(FixturePool[j][1]) } }

PredictionEntry(success, numeric, wp) == [success |-> success, numeric |-> numeric, wp |-> wp]

\* data/predictions.json: absent, or a successful 63 for every fixture
PrecomputedFiles ==
    { NoFile, [exists |-> TRUE, entries |-> [id \in PoolIds |-> PredictionEntry(TRUE, TRUE, 630)]] }

\* what the scorer may say about one game: a failure, a success without a
\* number, or a success with -1.5, 62.5 or 100.6
ScorerEntries ==
    { PredictionEntry(FALSE, TRUE, 700), PredictionEntry(TRUE, FALSE, 0),
      PredictionEntry(TRUE, TRUE, -15), PredictionEntry(TRUE, TRUE, 625),
      PredictionEntry(TRUE, TRUE, 1006) }

Ids(gs) == { gs[i].id : i \in 1..Len(gs) }

\* the JSON objects the scorer may print for a batch: any subset of its ids
ScorerObjects(gs) ==
    UNION { [S -> ScorerEntries] : S \in SUBSET Ids(gs) }

NoisePatterns ==
    { <<<<>>, <<>>>>, <<<<Seg("txt")>>, <<>>>>, <<<<>>, <<Seg("txt")>>>>,
      <<<<Seg("lb")>>, <<>>>>, <<<<>>, <<Seg("rb")>>>>,
      <<<<Seg("rb")>>, <<Seg("lb")>>>> }

ScorerOutputs(gs) ==
    { n[1] \o <<ObjSeg(o)>> \o n[2] : n \in NoisePatterns, o \in ScorerObjects(gs) }
      \cup { <<>>, <<Seg("txt")>>, <<Seg("null")>>, <<Seg("num")>>,
             <<Seg("lb"), Seg("txt")>>, <<Seg("txt"), Seg("rb")>> }

\* the script is not found; or it runs and exits 0, exits non-zero, is killed
\* at the timeout, overflows maxBuffer, or the interpreter cannot be started
ScorerExits == {"ok", "nonzero", "timeout", "maxbuffer", "spawnfail"}

ScorerRuns(gs) ==
    {NoRun} \cup
    { [script |-> TRUE, exit |-> e, out |-> o] :
        e \in ScorerExits \ {"spawnfail"}, o \in ScorerOutputs(gs) } \cup
    { [script |-> TRUE, exit |-> "spawnfail", out |-> o] : o \in {<<>>, <<Seg("txt")>>} }

Init ==
    /\ AppIdle
    /\ AdjustIdle
    /\ RestIdle
    /\ GoalieIdle
    /\ data = <<>>
    /\ tz \in TzOffsets
    /\ pc = "start"
    /\ route \in {"current", "legacy"}
    /\ reqTeam \in {"", "TOR"}
    /\ upcoming \in BOOLEAN
    /\ now = Today * 24 + NowHour
    /\ injuryCounts = NoTeamMap
    /\ detailedInjuries = NoTeamMap
    /\ injuryFiles = NoInjuryFiles
    /\ precomputed \in PrecomputedFiles
    /\ games = <<>>
    /\ scorerRun = NoRun
    /\ spawnCount = 0
    /\ payload = <<>>
    /\ status = 0

\* lines 270-330: the game data file is not found anywhere (404), or reading
\* or parsing it throws (500, the outer catch)
GameDataUnavailable ==
    /\ pc = "start"
    /\ \E code \in {404, 500} : status' = code
    /\ pc' = "done"
    /\ UNCHANGED appVars
    /\ UNCHANGED <<adjustVars, restVars, goalieVars, route, reqTeam, upcoming, now,
                   injuryCounts, detailedInjuries, injuryFiles, precomputed, games, scorerRun,
                   spawnCount, payload>>

\* lines 332-476: the log and the injury files are read, the games converted,
\* filtered and sorted
CollectGames ==
    /\ pc = "start"
    /\ \E log \in RouteLogs, inj \in InjuryWorlds :
         /\ data' = log
         /\ injuryFiles' = [counts |-> inj.counts.readable, detailed |-> inj.detailed.readable]
         /\ injuryCounts' = loadInjuryCounts(inj.counts)
         /\ detailedInjuries' = loadDetailedInjuries(inj.detailed)
         /\ games' = collectGames(log, reqTeam, upcoming, loadInjuryCounts(inj.counts),
                                  loadDetailedInjuries(inj.detailed), now, tz)
    /\ pc' = "predict"
    /\ UNCHANGED appVars
    /\ UNCHANGED <<adjustVars, tz, restTeam, restDay, restB2B, restBucket, goalieVars,
                   route, reqTeam, upcoming, now, precomputed, scorerRun, spawnCount,
                   payload, status>>

\* lines 478-717 of the current route file: the batch prediction and the answer
PredictAndRespond ==
    /\ pc = "predict"
    /\ route = "current"
    /\ \E run \in ScorerRuns(games) :
         /\ scorerRun' = (IF Len(games) > 0 THEN run ELSE NoRun)
         /\ spawnCount' = spawnCount + spawns(games, run)
         /\ payload' = (IF spawns(games, run) > 0 THEN gamesForPrediction(games) ELSE payload)
         /\ games' = predictCurrent(games, run)
    /\ status' = 200
    /\ pc' = "done"
    /\ UNCHANGED appVars
    /\ UNCHANGED <<adjustVars, restVars, goalieVars, route, reqTeam, upcoming, now,
                   injuryCounts, detailedInjuries, injuryFiles, precomputed>>

\* lines 411-510 of the older copy of the route file
PredictAndRespondLegacy ==
    /\ pc = "predict"
    /\ route = "legacy"
    /\ \E run \in ScorerRuns(games) :
         /\ scorerRun' = (IF Len(games) > 0 THEN run ELSE NoRun)
         /\ spawnCount' = spawnCount + spawns(games, run)
         /\ payload' = (IF spawns(games, run) > 0 THEN gamesForPrediction(games) ELSE payload)
         /\ games' = predictLegacy(games, run)
    /\ status' = 200
    /\ pc' = "done"
    /\ UNCHANGED appVars
    /\ UNCHANGED <<adjustVars, restVars, goalieVars, route, reqTeam, upcoming, now,
                   injuryCounts, detailedInjuries, injuryFiles, precomputed>>

\* GameCard.tsx line 17: the page shows a game of the answer with the adjusted
\* probability
RenderGameCard ==
    /\ pc = "done"
    /\ status = 200
    /\ game = NoGame
    /\ \E i \in 1..Len(games) :
         /\ game' = games[i]
         /\ winProb' = calculateWinProb(games[i])
    /\ UNCHANGED appVars
    /\ UNCHANGED <<restVars, goalieVars, routeVars>>

Next ==
    \/ GameDataUnavailable
    \/ CollectGames
    \/ PredictAndRespond
    \/ PredictAndRespondLegacy

Spec == Init /\ [][Next]_vars

\* the current route answering and the page showing the answer
InitCard ==
    /\ Init
    /\ route = "current"
    /\ precomputed = NoFile

NextCard ==
    \/ CollectGames
    \/ PredictAndRespond
    \/ RenderGameCard

SpecCard == InitCard /\ [][NextCard]_vars

\* the request got past the game data file and has been answered
Answered == pc = "done" /\ status \notin {404, 500}

\* some JSON object in the scorer's text has a successful, numeric entry for id
HasValidEntry(run, id) ==
    \E k \in 1..Len(run.out) :
        /\ run.out[k].kind = "obj"
        /\ id \in DOMAIN run.out[k].entries
        /\ run.out[k].entries[id].success
        /\ run.out[k].entries[id].numeric

\* the scorer failed: no script, no clean exit, or no text that is one JSON value
ScorerFailed(run) ==
    \/ ~run.script
    \/ run.exit # "ok"
    \/ \A k \in 1..Len(run.out) : run.out[k].kind \notin {"obj", "null", "num"}

\* C2: whenever the batch is non-empty and the scorer fails in any way (script
\* not found, process not started, non-zero exit, timeout, oversized output, no
\* parseable JSON), the handler still answers the game list with status 200 and
\* every game whose id has no valid scorer entry has baseWinProb = 50.
C2_ScorerFailureFallsBackTo50 ==
    (Answered /\ Len(games) > 0 /\ ScorerFailed(scorerRun)) =>
        /\ status = 200
        /\ \A i \in 1..Len(games) :
             ~HasValidEntry(scorerRun, games[i].id) => games[i].baseWinProb = 50

\* two games were answered at 50 after the scorer was killed at its timeout, and
\* its text held a valid entry for neither
C2_Witness ==
    /\ Answered
    /\ status = 200
    /\ Len(games) = 2
    /\ scorerRun.script
    /\ scorerRun.exit = "timeout"
    /\ scorerRun.out # <<>>
    /\ \A i \in 1..Len(games) :
         ~HasValidEntry(scorerRun, games[i].id) /\ games[i].baseWinProb = 50

\* C3: in one execution of the handler predict_batch.py is started at most
\* once whatever the size of the batch, never when the filtered game list is
\* empty, and when it is started its input is one array with exactly one
\* {id, homeTeam, awayTeam} element per game of the batch, in the batch's order.
C3_ScorerStartedAtMostOnce ==
    /\ spawnCount <= 1
    /\ (Answered /\ Len(games) = 0) => spawnCount = 0
    /\ (Answered /\ spawnCount = 1) =>
         /\ Len(payload) = Len(games)
         /\ \A i \in 1..Len(games) :
              /\ DOMAIN payload[i] = {"id", "homeTeam", "awayTeam"}
              /\ payload[i].id = GameId(games[i].date, games[i].awayTeam, games[i].homeTeam)
              /\ payload[i].homeTeam = games[i].homeTeam
              /\ payload[i].awayTeam = games[i].awayTeam

\* the scorer ran once for a batch of two games
C3_Witness ==
    /\ Answered
    /\ Len(games) = 2
    /\ spawnCount = 1
    /\ Len(payload) = 2
    /\ payload[1].id # payload[2].id

\* C4: a game whose id is in the precomputed artifact with success = true gets
\* exactly the artifact's probability as its base probability and is left out of
\* the scorer payload, and the scorer is not started when every game of the
\* batch is resolved this way.
C4_PrecomputedUsedFirst ==
    Answered =>
        LET cached == { i \in 1..Len(games) :
                          /\ precomputed.exists
                          /\ games[i].id \in DOMAIN precomputed.entries
                          /\ precomputed.entries[games[i].id].success }
        IN  /\ \A i \in cached :
                 /\ 10 * games[i].baseWinProb = precomputed.entries[games[i].id].wp
                 /\ \A k \in 1..Len(payload) : payload[k].id # games[i].id
            /\ cached = 1..Len(games) => spawnCount = 0

\* what the route made of the scorer's text, if it parsed anything
ParsedByRoute ==
    IF route = "current" THEN extractAndParse(capturedResult(scorerRun))
    ELSE IF scorerRun.exit = "ok" THEN parseWhole(scorerRun.out)
    ELSE ParseFailed

\* r is x (in tenths) rounded to the nearest integer, a half going up
IsRounded(r, x) == 10 * r - 5 <= x /\ x < 10 * r + 5

\* C5: when the scorer output parses to an object, a game whose entry is there
\* with success true and a numeric win_probability gets round(win_probability)
\* as baseWinProb and currentWinProb, and a game whose entry is missing, has
\* success false or a non-numeric win_probability keeps 50, whatever the
\* entries of the other games of the batch are.
C5_PerGameResolution ==
    (Answered /\ Len(games) > 0 /\ scorerRun.script
       /\ ParsedByRoute.ok /\ ParsedByRoute.kind = "object") =>
        \A i \in 1..Len(games) :
            LET entries == ParsedByRoute.entries
                id == games[i].id
            IN  IF id \in DOMAIN entries /\ entries[id].success /\ entries[id].numeric
                THEN /\ IsRounded(games[i].baseWinProb, entries[id].wp)
                     /\ games[i].currentWinProb = games[i].baseWinProb
                ELSE /\ games[i].baseWinProb = 50
                     /\ games[i].currentWinProb = 50

\* of two games the first has a failed entry and stays at 50 while the second
\* gets 62.5 rounded to 63
C5_Witness ==
    /\ Answered
    /\ Len(games) = 2
    /\ ParsedByRoute.ok
    /\ ParsedByRoute.kind = "object"
    /\ games[1].id \in DOMAIN ParsedByRoute.entries
    /\ ~ParsedByRoute.entries[games[1].id].success
    /\ games[1].baseWinProb = 50
    /\ games[2].id \in DOMAIN ParsedByRoute.entries
    /\ ParsedByRoute.entries[games[2].id].wp = 625
    /\ games[2].baseWinProb = 63
    /\ games[2].currentWinProb = 63

\* the bucket the log's date strings give a team for a game dated day
BucketByDay(d, team, day) ==
    LET count == Cardinality(PlayedBetween(d, team, day - 6, day - 1))
    IN  IF PlayedOn(d, team, day - 1) # {} THEN "back-to-back"
        ELSE IF count >= 4 THEN "four-in-six"
        ELSE IF count = 3 THEN "three-in-four"
        ELSE "fresh"

\* C8: for a game derived from a log entry dated D, the back-to-back flag and
\* the rest bucket of each side are decided by the played entries dated D-1
\* (and D-6..D-1), whatever the host's offset from UTC is.
C8_RestByCalendarDay ==
    pc \in {"predict", "done"} =>
        \A i \in 1..Len(games) :
            LET g == games[i]
            IN  /\ g.isHomeBackToBack = (PlayedOn(data, g.homeTeam, g.date - 1) # {})
                /\ g.isAwayBackToBack = (PlayedOn(data, g.awayTeam, g.date - 1) # {})
                /\ g.homeRestDays = BucketByDay(data, g.homeTeam, g.date)
                /\ g.awayRestDays = BucketByDay(data, g.awayTeam, g.date)

\* the id convertToGameFormat gives the fixture of a log entry
EntryId(e) ==
    IF e.game_location # "@" THEN GameId(e.date, e.opponent, e.team)
    ELSE GameId(e.date, e.team, e.opponent)

\* the entry is converted for its own team and its start time passes the filter
EntryIsListed(e) ==
    /\ IsUpcomingEntry(e, e.team, now, tz)
    /\ DateTimeParse(e.date, GameHour, tz) > now
    /\ upcoming => DateTimeParse(e.date, GameHour, tz) <= now + UpcomingWindow

\* C11: the game list never holds two games with the same id, with and without
\* ?team=, and without ?team= the home row and the '@' row of one fixture give
\* exactly one game.
C11_GameIdsUnique ==
    pc \in {"predict", "done"} =>
        /\ \A i, j \in 1..Len(games) : games[i].id = games[j].id => i = j
        /\ reqTeam = "" =>
             \A k \in 1..Len(data) :
                 EntryIsListed(data[k]) =>
                     Cardinality({ i \in 1..Len(games) : games[i].id = EntryId(data[k]) }) = 1

\* without ?team=, a log holding both rows of two fixtures still to come was
\* answered with two games
C11_Witness ==
    /\ Answered
    /\ reqTeam = ""
    /\ Len(games) = 2
    /\ \E k, l \in 1..Len(data) :
         /\ k # l
         /\ EntryId(data[k]) = EntryId(data[l])
         /\ EntryIsListed(data[k])
         /\ EntryIsListed(data[l])
         /\ games[1].id = EntryId(data[k])

\* ------------------------------------------------------------------------
\* The adjuster's deltas
\* ------------------------------------------------------------------------

\* how far a goalie tier moves the probability of its own side down
GoalieTier(t) ==
    CASE t = "starter" -> 0
      [] t = "backup" -> 8
      [] t = "third-string" -> 15

\* rest, injuries and back-to-back flags are neutral on both sides
OnlyGoaliesDiffer(g) ==
    /\ g.homeRestDays = "fresh" /\ g.awayRestDays = "fresh"
    /\ g.homeInjuries = 0 /\ g.awayInjuries = 0
    /\ ~g.isHomeBackToBack /\ ~g.isAwayBackToBack

\* C12: with every other factor neutral the result is the base lowered by
\* 0 / 8 / 15 for a home starter / backup / third-string goalie and raised by
\* 0 / 8 / 15 for an away one, then clamped to 5..95; base 50 with a home backup
\* and an away starter gives 42.
C12_GoalieTierDelta ==
    (game # NoGame /\ OnlyGoaliesDiffer(game)) =>
        /\ winProb = Max(5, Min(95, game.baseWinProb - GoalieTier(game.homeGoalie)
                                                     + GoalieTier(game.awayGoalie)))
        /\ (game.baseWinProb = 50 /\ game.homeGoalie = "backup" /\ game.awayGoalie = "starter")
             => winProb = 42

\* base 50 with a home third-string goalie against an away backup gave 43
C12_Witness ==
    /\ game # NoGame
    /\ OnlyGoaliesDiffer(game)
    /\ game.baseWinProb = 50
    /\ game.homeGoalie = "third-string"
    /\ game.awayGoalie = "backup"
    /\ winProb = 43

\* C14: every home injury lowers the unclamped result by 3 and every away
\* injury raises it by 3, linearly in the two counts and whatever the other
\* factors are: the result is the clamped value of the same game without
\* injuries minus 3 per home injury plus 3 per away injury.
C14_InjuryDeltaLinear ==
    game # NoGame =>
        LET healthy == [game EXCEPT !.homeInjuries = 0, !.awayInjuries = 0]
        IN  winProb = Max(5, Min(95, unclampedProb(healthy)
                                       - 3 * game.homeInjuries + 3 * game.awayInjuries))

\* two home injuries against none, with a home backup on a back-to-back, took
\* base 60 down to 39
C14_Witness ==
    /\ game # NoGame
    /\ game.baseWinProb = 60
    /\ game.homeInjuries = 2
    /\ game.awayInjuries = 0
    /\ game.homeGoalie = "backup"
    /\ game.awayGoalie = "starter"
    /\ game.homeRestDays = "back-to-back"
    /\ game.awayRestDays = "fresh"
    /\ game.isHomeBackToBack
    /\ ~game.isAwayBackToBack
    /\ winProb = 39

\* the game seen from the other side
SwapSides(g) ==
    [g EXCEPT !.baseWinProb = 100 - g.baseWinProb,
              !.homeGoalie = g.awayGoalie, !.awayGoalie = g.homeGoalie,
              !.homeRestDays = g.awayRestDays, !.awayRestDays = g.homeRestDays,
              !.homeInjuries = g.awayInjuries, !.awayInjuries = g.homeInjuries,
              !.isHomeBackToBack = g.isAwayBackToBack,
              !.isAwayBackToBack = g.isHomeBackToBack]

\* C15: exchanging all home and away factors and taking base 100 - b gives
\* 100 minus the result.
C15_SwapSymmetry ==
    game # NoGame => calculateWinProb(SwapSides(game)) = 100 - winProb

\* a game with different factors on the two sides was clamped at 95, and its
\* mirror image at 5
C15_Witness ==
    /\ game # NoGame
    /\ unclampedProb(game) > 95
    /\ winProb = 95
    /\ game.homeGoalie # game.awayGoalie
    /\ game.homeRestDays # game.awayRestDays
    /\ game.homeInjuries # game.awayInjuries
    /\ game.isAwayBackToBack /\ ~game.isHomeBackToBack
    /\ calculateWinProb(SwapSides(game)) = 5

\* how far a rest bucket moves the probability of its own side down
RestTier(r) ==
    CASE r = "fresh" -> 0
      [] r = "back-to-back" -> 5
      [] r = "three-in-four" -> 8
      [] r = "four-in-six" -> 12

\* C13: for a game of the answer with starter goalies and no injuries on both
\* sides, the adjuster changes the base by the rest tier delta alone: minus
\* 0 / 5 / 8 / 12 for the home side's bucket and plus the same for the away
\* side's, so a back-to-back home team against a fresh away team gives base - 5
\* (within the clamp).
C13_RestTierDelta ==
    (game # NoGame /\ pc = "done"
       /\ game.homeGoalie = "starter" /\ game.awayGoalie = "starter"
       /\ game.homeInjuries = 0 /\ game.awayInjuries = 0) =>
        winProb = Max(5, Min(95, game.baseWinProb - RestTier(game.homeRestDays)
                                                  + RestTier(game.awayRestDays)))

\* ------------------------------------------------------------------------
\* The scorer's output and what the route makes of it
\* ------------------------------------------------------------------------

\* the text is one JSON object with diagnostic text, with or without braces,
\* before and/or after it
ObjectAmongNoise(out) ==
    /\ Cardinality({ k \in 1..Len(out) : out[k].kind = "obj" }) = 1
    /\ \A k \in 1..Len(out) : out[k].kind \in {"obj", "txt", "lb", "rb"}

TheObject(out) == out[CHOOSE k \in 1..Len(out) : out[k].kind = "obj"].entries

\* C16: when the scorer's captured output is a well-formed JSON object keyed by
\* game id with non-JSON diagnostic text before and/or after it, braces in that
\* text included, the current route recovers the object and gives every game
\* with a valid entry the rounded probability of that entry.
C16_ObjectRecoveredFromNoise ==
    (Answered /\ route = "current" /\ Len(games) > 0
       /\ scorerRun.script /\ scorerRun.exit = "ok" /\ ObjectAmongNoise(scorerRun.out)) =>
        \A i \in 1..Len(games) :
            LET entries == TheObject(scorerRun.out)
                id == games[i].id
            IN  (id \in DOMAIN entries /\ entries[id].success /\ entries[id].numeric) =>
                    IsRounded(games[i].baseWinProb, entries[id].wp)

\* C17: when the scorer is killed at the 30 second timeout or overflows the
\* 10MB buffer, nothing of its captured output is applied and every game of the
\* batch keeps baseWinProb = 50.
C17_TimeoutKeepsDefault ==
    (Answered /\ Len(games) > 0 /\ scorerRun.script
       /\ scorerRun.exit \in {"timeout", "maxbuffer"}) =>
        \A i \in 1..Len(games) :
            games[i].baseWinProb = 50 /\ games[i].currentWinProb = 50

\* C18: every game of the answer has a baseWinProb within 0..100, whatever the
\* scorer printed.
C18_BaseWithinPercentRange ==
    Answered => \A i \in 1..Len(games) : games[i].baseWinProb \in 0..100

\* ------------------------------------------------------------------------
\* What a request changes
\* ------------------------------------------------------------------------

\* the log and the two injury maps stay as they were loaded
InputsKept ==
    /\ data' = data
    /\ injuryCounts' = injuryCounts
    /\ detailedInjuries' = detailedInjuries

\* a Game without the two probability fields
WithoutWinProb(g) == [g EXCEPT !.baseWinProb = 0, !.currentWinProb = 0]

\* a step that leaves the inputs and every Game as they are
NothingChanges ==
    pc \in {"predict", "done"} => (InputsKept /\ games' = games)

\* C19 as stated: once convertToGameFormat has returned the games, the log, the
\* injury-count map and the per-team injury lists stay unchanged and no field of
\* any Game is modified.
C19_Original == [][NothingChanges]_vars

\* a step that changes at most the two probability fields of the games
OnlyWinProbFieldsChange ==
    pc \in {"predict", "done"} =>
        /\ InputsKept
        /\ Len(games') = Len(games)
        /\ \A i \in 1..Len(games) : WithoutWinProb(games'[i]) = WithoutWinProb(games[i])

\* C19, amended: once convertToGameFormat has returned the games, the log, the
\* injury-count map and the per-team injury lists stay unchanged, the list keeps
\* its games and their order, and no field of a Game other than baseWinProb and
\* currentWinProb is modified.
C19_OnlyWinProbFieldsChange == [][OnlyWinProbFieldsChange]_vars

\* a game with a starter among its injured players was answered with the
\* scorer's 63 in place of the 50 it was built with, its lists still attached
C19_Witness ==
    /\ Answered
    /\ Len(games) >= 1
    /\ games[1].baseWinProb = 63
    /\ games[1].currentWinProb = 63
    /\ games[1].homeGoalie = "backup"
    /\ games[1].homeInjuredPlayers.defined
    /\ Len(games[1].homeInjuredPlayers.items) = 2
    /\ data # <<>>

\* ------------------------------------------------------------------------
\* Missing injury files
\* ------------------------------------------------------------------------

\* C20 as stated: when the count file or the detailed file is missing or does
\* not parse, the game list is still answered, every injury count is 0 and no
\* injured-player list is attached to any game.
C20_Original ==
    (Answered /\ (~injuryFiles.counts \/ ~injuryFiles.detailed)) =>
        /\ status = 200
        /\ \A i \in 1..Len(games) :
             /\ games[i].homeInjuries = 0 /\ games[i].awayInjuries = 0
             /\ games[i].homeInjuredPlayers = NoList
             /\ games[i].awayInjuredPlayers = NoList

\* C20, amended: the game list is answered whatever the state of the two files;
\* without a readable count file every injury count is 0; without a readable
\* detailed file no injured player is listed and both goalies are starters, the
\* list of a side being empty when its count is positive and absent otherwise;
\* without either file no list is attached at all.
C20_InjuryFilesDefault ==
    Answered =>
        /\ status = 200
        /\ ~injuryFiles.counts =>
             \A i \in 1..Len(games) :
                 games[i].homeInjuries = 0 /\ games[i].awayInjuries = 0
        /\ ~injuryFiles.detailed =>
             \A i \in 1..Len(games) :
                 /\ games[i].homeGoalie = "starter" /\ games[i].awayGoalie = "starter"
                 /\ games[i].homeInjuredPlayers =
                        (IF games[i].homeInjuries = 0 THEN NoList ELSE ListOf(<<>>))
                 /\ games[i].awayInjuredPlayers =
                        (IF games[i].awayInjuries = 0 THEN NoList ELSE ListOf(<<>>))

\* with the count file alone, a game was answered with two home injuries, an
\* empty list and a home starter
C20_Witness ==
    /\ Answered
    /\ injuryFiles.counts
    /\ ~injuryFiles.detailed
    /\ Len(games) = 2
    /\ games[1].homeTeam = "TOR"
    /\ games[1].homeInjuries = 2
    /\ games[1].homeInjuredPlayers = ListOf(<<>>)
    /\ games[1].awayInjuries = 1
    /\ games[1].homeGoalie = "starter"

\* ------------------------------------------------------------------------
\* Which entries become games
\* ------------------------------------------------------------------------

\* the calendar day of an instant on the host's clock
LocalDay(t, z) == FloorDiv(t + z, 24)

\* the ids of the games convertToGameFormat builds for a team from the loaded
\* log
ConvertedIds(team) ==
    LET gs == convertToGameFormat(data, team, injuryCounts, detailedInjuries, now, tz)
    IN  { gs[i].id : i \in 1..Len(gs) }

\* C21: convertToGameFormat skips the entries dated before the current calendar
\* day but keeps today's: an entry without a result dated on the current
\* calendar day is in its output.
C21_TodaysGamesIncluded ==
    pc \in {"predict", "done"} =>
        \A k \in 1..Len(data) :
            (~Played(data[k]) /\ data[k].opponent # "" /\ data[k].date = LocalDay(now, tz))
                => EntryId(data[k]) \in ConvertedIds(data[k].team)

\* C28: in every game convertToGameFormat produced, each side's back-to-back
\* flag is true exactly when that side's rest bucket is 'back-to-back'.
C28_FlagAgreesWithBucket ==
    \A i \in 1..Len(games) :
        /\ games[i].isHomeBackToBack = (games[i].homeRestDays = "back-to-back")
        /\ games[i].isAwayBackToBack = (games[i].awayRestDays = "back-to-back")

\* of two games the first has the home side on a back-to-back, flag and bucket,
\* and the second has both sides fresh
C28_Witness ==
    /\ pc \in {"predict", "done"}
    /\ Len(games) = 2
    /\ games[1].isHomeBackToBack
    /\ games[1].homeRestDays = "back-to-back"
    /\ ~games[1].isAwayBackToBack
    /\ games[1].awayRestDays = "fresh"
    /\ ~games[2].isHomeBackToBack
    /\ games[2].homeRestDays = "fresh"

\* C29: an injury list whose player names are all empty never makes
\* isStartingGoalieInjured return true.
C29_EmptyNameNeverMatches ==
    (goalieTeam # "none" /\ injuredPlayers.defined
       /\ \A i \in 1..Len(injuredPlayers.items) : injuredPlayers.items[i].player = <<>>)
        => ~goalieInjured

\* the start of a returned game: its date at 19:00 on the host's clock
StartOfGame(g) == DateTimeParse(g.date, GameHour, tz)

\* C22: every returned game comes from a log entry without a result and starts
\* strictly after the request; with upcoming=true it starts no later than 48
\* hours after the request; and the list is in non-decreasing order of start
\* time, before and after the predictions are applied.
C22_ReturnedGamesUpcomingSorted ==
    pc \in {"predict", "done"} =>
        /\ \A i \in 1..Len(games) :
             /\ \E k \in 1..Len(data) :
                    ~Played(data[k]) /\ EntryId(data[k]) = games[i].id
             /\ games[i].time = GameHour
             /\ StartOfGame(games[i]) > now
             /\ upcoming => StartOfGame(games[i]) <= now + UpcomingWindow
        /\ \A i, j \in 1..Len(games) :
             i < j => StartOfGame(games[i]) <= StartOfGame(games[j])

\* a log whose rows have the later fixture first was answered with both games,
\* the earlier first, and the scorer's value on the second
C22_Witness ==
    /\ Answered
    /\ ~upcoming
    /\ Len(games) = 2
    /\ data[1].date = Today + 2
    /\ data[Len(data)].date = Today + 1
    /\ games[1].date = Today + 1
    /\ games[2].date = Today + 2
    /\ games[2].baseWinProb = 63

\* ------------------------------------------------------------------------
\* The prediction generator script and the ids it writes
\* ------------------------------------------------------------------------

\* the filter of the script: no result and a date after the instant it runs
isFutureGame(g, nowT) == ~Played(g) /\ DateParse(g.date) > nowT

\* the key is built with the home team first
generatorIdHomeFirst(g) ==
    LET isHome == g.game_location # "@"
        homeTeam == IF isHome THEN g.team ELSE g.opponent
        awayTeam == IF isHome THEN g.opponent ELSE g.team
    IN  GameId(g.date, homeTeam, awayTeam)

\* id: `game-${g.date}-${awayTeam}-${homeTeam}`
generatorId(g) ==
    LET isHome == g.game_location # "@"
        homeTeam == IF isHome THEN g.team ELSE g.opponent
        awayTeam == IF isHome THEN g.opponent ELSE g.team
    IN  GameId(g.date, awayTeam, homeTeam)

\* gamesForPrediction of the script: the ids it asks the scorer about and that
\* key predictions.json
generatorIds(d, nowT) ==
    { generatorId(d[k]) :
        k \in { n \in 1..Len(d) : isFutureGame(d[n], nowT) /\ d[n].opponent # "" } }

\* the id the route gives the game it builds from a log entry
RouteIdOf(e) ==
    GameOfEntry(data, e, e.team, injuryCounts, detailedInjuries, tz).id

\* C27: the generator script and the route derive the same id for the same
\* fixture: for every entry without a result both give
\* game-<date>-<awayTeam>-<homeTeam> with home and away read from game_location
\* the same way, so every key of the artifact is the id the route gives that
\* fixture and every returned game is found under its id.
C27_GeneratorAndRouteIdsAgree ==
    /\ pc = "predict" =>
          /\ \A k \in 1..Len(data) :
               ~Played(data[k]) => generatorId(data[k]) = RouteIdOf(data[k])
          /\ \A key \in generatorIds(data, now) :
               \E k \in 1..Len(data) : ~Played(data[k]) /\ RouteIdOf(data[k]) = key
    /\ pc \in {"predict", "done"} =>
          \A i \in 1..Len(games) : games[i].id \in generatorIds(data, now)

\* two games were returned, one built from a home row and one from an '@' row,
\* and the script run on the same log has exactly their two ids
C27_Witness ==
    /\ pc = "predict"
    /\ reqTeam = "TOR"
    /\ Len(games) = 2
    /\ games[1].homeTeam = "TOR"
    /\ games[2].awayTeam = "TOR"
    /\ generatorIds(data, now) = {games[1].id, games[2].id}

\* ------------------------------------------------------------------------
\* The daily-update endpoint (GET of the cron route)
\* ------------------------------------------------------------------------

\* process.env.CRON_SECRET: "undefined" when the variable is not set
CronSecrets == {"undefined", "", "s1"}
\* request.headers.get('authorization'): "null" when the header is absent
AuthHeaders == {"null", "Bearer s1", "Bearer s2", "Bearer ", "s1"}

pythonScript == "../scripts/daily_update.py"
pythonAltPath == "scripts/daily_update.py"
predictionScript == "../scripts/generate-predictions.js"
predictionAltPath == "scripts/generate-predictions.js"
ScriptPaths == {pythonScript, pythonAltPath, predictionScript, predictionAltPath}

\* execSync returns the output, or throws on a non-zero exit or on the timeout
ExecOutcomes == {"ok", "exit 1", "ETIMEDOUT"}

\* if (cronSecret && authHeader !== `Bearer ${cronSecret}`)
unauthorized(authHeader, cronSecret) ==
    /\ cronSecret \notin {"undefined", ""}
    /\ authHeader # "Bearer " \o cronSecret

\* the body of one step's try block and its catch: the script at the first
\* path that exists is run, and a missing script or a throwing execSync gives
\* a failed step
runStep(files, prog, primary, alt, outcome) ==
    LET found == IF primary \in files THEN primary
                 ELSE IF alt \in files THEN alt ELSE "none"
    IN  IF found = "none"
        THEN [ran |-> <<>>, step |-> [success |-> FALSE, text |-> "not found"]]
        ELSE [ran |-> << [prog |-> prog, path |-> found] >>,
              step |-> [success |-> outcome = "ok", text |-> outcome]]

\* the last step alone decides results.success
recordStepLastWins(results, key, step) ==
    [success |-> step.success, steps |-> (key :> step) @@ results.steps]

\* results.steps[key] = ...; the catch also sets results.success = false
recordStep(results, key, step) ==
    [success |-> results.success /\ step.success,
     steps |-> (key :> step) @@ results.steps]

InitCron ==
    /\ AdjustIdle
    /\ data = <<>>
    /\ tz = 0
    /\ RestIdle
    /\ GoalieIdle
    /\ RouteIdle
    /\ page = HomeIdle
    /\ sim = SimIdle
    /\ \E h \in AuthHeaders, s \in CronSecrets, f \in SUBSET ScriptPaths,
          p \in ExecOutcomes, n \in ExecOutcomes :
         cron = [CronIdle EXCEPT !.pc = "start", !.authHeader = h, !.cronSecret = s,
                                 !.files = f, !.pyExec = p, !.nodeExec = n]

\* lines 85-98: the check of the authorization header
CronAuthorize ==
    /\ cron.pc = "start"
    /\ cron' = IF unauthorized(cron.authHeader, cron.cronSecret)
               THEN [cron EXCEPT !.pc = "done", !.status = 401]
               ELSE [cron EXCEPT !.pc = "step1"]
    /\ UNCHANGED <<adjustVars, restVars, goalieVars, routeVars, page, sim>>

\* Step 1: Update game results
CronUpdateResults ==
    /\ cron.pc = "step1"
    /\ LET r == runStep(cron.files, "python3", pythonScript, pythonAltPath, cron.pyExec)
       IN  cron' = [cron EXCEPT !.pc = "step2",
                                !.ran = cron.ran \o r.ran,
                                !.results = recordStep(cron.results, "updateResults", r.step)]
    /\ UNCHANGED <<adjustVars, restVars, goalieVars, routeVars, page, sim>>

\* Step 2: Regenerate predictions, and the response
CronRegeneratePredictions ==
    /\ cron.pc = "step2"
    /\ LET r == runStep(cron.files, "node", predictionScript, predictionAltPath,
                        cron.nodeExec)
           results == recordStep(cron.results, "regeneratePredictions", r.step)
       IN  cron' = [cron EXCEPT !.pc = "done",
                                !.ran = cron.ran \o r.ran,
                                !.results = results,
                                !.status = IF results.success THEN 200 ELSE 500]
    /\ UNCHANGED <<adjustVars, restVars, goalieVars, routeVars, page, sim>>

NextCron == CronAuthorize \/ CronUpdateResults \/ CronRegeneratePredictions

SpecCron == InitCron /\ [][NextCron]_vars

\* ------------------------------------------------------------------------
\* C25: a request whose authorization header is not 'Bearer <CRON_SECRET>'
\* is answered 401 and runs neither daily_update.py nor
\* generate-predictions.js.
\* ------------------------------------------------------------------------

HeaderIsBearerSecret ==
    /\ cron.cronSecret # "undefined"
    /\ cron.authHeader = "Bearer " \o cron.cronSecret

C25_UnauthorizedRunsNothing ==
    (cron.pc \in {"step1", "step2", "done"} /\ ~HeaderIsBearerSecret) =>
        /\ cron.status \in {0, 401}
        /\ cron.pc = "done"
        /\ cron.ran = <<>>

\* ------------------------------------------------------------------------
\* C26: the two steps run in order and independently: the regeneration is
\* attempted whatever the results step did, each step's outcome is under its
\* own key, and the status is 200 exactly when both steps succeeded and 500
\* otherwise.
\* ------------------------------------------------------------------------

StepWorks(primary, alt, outcome) ==
    (primary \in cron.files \/ alt \in cron.files) /\ outcome = "ok"

AttemptOf(prog, primary, alt) ==
    IF primary \in cron.files \/ alt \in cron.files
    THEN << [prog |-> prog,
             path |-> IF primary \in cron.files THEN primary ELSE alt] >>
    ELSE <<>>

C26_StepsInOrderAndIndependent ==
    /\ cron.pc = "step2" =>
         /\ DOMAIN cron.results.steps = {"updateResults"}
         /\ cron.ran = AttemptOf("python3", pythonScript, pythonAltPath)
    /\ (cron.pc = "done" /\ cron.status # 401) =>
         /\ DOMAIN cron.results.steps = {"updateResults", "regeneratePredictions"}
         /\ cron.ran = AttemptOf("python3", pythonScript, pythonAltPath)
                         \o AttemptOf("node", predictionScript, predictionAltPath)
         /\ cron.results.steps["updateResults"].success
              = StepWorks(pythonScript, pythonAltPath, cron.pyExec)
         /\ cron.results.steps["regeneratePredictions"].success
              = StepWorks(predictionScript, predictionAltPath, cron.nodeExec)
         /\ cron.status = IF /\ StepWorks(pythonScript, pythonAltPath, cron.pyExec)
                             /\ StepWorks(predictionScript, predictionAltPath,
                                          cron.nodeExec)
                          THEN 200 ELSE 500

\* the results step timed out, the regeneration still ran from its alternative
\* path and succeeded, and the answer was 500
C26_Witness ==
    /\ cron.pc = "done"
    /\ cron.pyExec = "ETIMEDOUT"
    /\ cron.ran = << [prog |-> "python3", path |-> pythonScript],
                     [prog |-> "node", path |-> predictionAltPath] >>
    /\ ~cron.results.steps["updateResults"].success
    /\ cron.results.steps["regeneratePredictions"].success
    /\ cron.status = 500

\* ------------------------------------------------------------------------
\* The Home page: loadGames
\* ------------------------------------------------------------------------

\* a Game as the page receives it: the fields loadGames reads or writes
PageGame(id, homeTeam, awayTeam, homeInj, awayInj) ==
    [id |-> id, homeTeam |-> homeTeam, awayTeam |-> awayTeam,
     homeInjuries |-> homeInj, awayInjuries |-> awayInj,
     homeInjuredPlayers |-> NoList, awayInjuredPlayers |-> NoList]

\* generateUpcomingGames(): the first matchups of the table during the season,
\* and nothing once the day is past seasonEnd; the players are left undefined
MockLists ==
    { <<>>,
      << PageGame("d1-TOR-BOS", "BOS", "TOR", 1, 2),
         PageGame("d1-EDM-VAN", "VAN", "EDM", 0, 1) >> }

\* what /api/games?upcoming=true can answer: the request fails, the route
\* answers 404 or 500 with an error body, the body is not JSON, or the route
\* answers 200 with its games
ApiLists ==
    { <<>>,
      << PageGame("game-d1-MTL-TOR", "TOR", "MTL", 2, 0) >>,
      << PageGame("game-d1-MTL-TOR", "TOR", "MTL", 2, 0),
         PageGame("game-d2-TOR-BOS", "BOS", "TOR", 0, 0) >> }

NoInjuryData == [defined |-> FALSE, byTeam |-> NoTeamMap]
InjuryDatas ==
    { NoInjuryData,
      [defined |-> TRUE, byTeam |-> ("TOR" :> <<"Woll, Joseph">>)],
      [defined |-> TRUE,
       byTeam |-> ("BOS" :> <<"Lindholm, Hampus", "McAvoy, Charlie">>)
                    @@ ("VAN" :> <<"Demko, Thatcher">>)] }

Failure(kind) ==
    [kind |-> kind, games |-> <<>>, error |-> kind = "not ok", injuryData |-> NoInjuryData]

ApiResponses ==
    { Failure("rejected"), Failure("not ok"), Failure("not json") }
      \cup { [kind |-> "json", games |-> l, error |-> FALSE, injuryData |-> d] :
               l \in ApiLists, d \in InjuryDatas }

\* fetchUpcomingGames of lines 5-47 ("v1") and of lines 97-143 ("v2"): the
\* first catches every error and returns [], the second throws it again
fetchUpcomingGamesEmpty(api, r) == [threw |-> FALSE, games |-> <<>>]

fetchUpcomingGames(api, r) ==
    LET failed == r.kind # "json" \/ (api = "v2" /\ r.error)
    IN  IF ~failed THEN [threw |-> FALSE, games |-> r.games]
        ELSE IF api = "v1" THEN [threw |-> FALSE, games |-> <<>>]
        ELSE [threw |-> TRUE, games |-> <<>>]

\* mockGames.forEach(game => ...): a team with an entry in injuryData gets its
\* players and their number
attachInjuryData(mockGames, byTeam) ==
    [ i \in 1..Len(mockGames) |->
        LET g == mockGames[i]
            h == IF g.homeTeam \in DOMAIN byTeam
                 THEN [g EXCEPT !.homeInjuredPlayers = ListOf(byTeam[g.homeTeam]),
                                !.homeInjuries = Len(byTeam[g.homeTeam])]
                 ELSE g
        IN  IF g.awayTeam \in DOMAIN byTeam
            THEN [h EXCEPT !.awayInjuredPlayers = ListOf(byTeam[g.awayTeam]),
                           !.awayInjuries = Len(byTeam[g.awayTeam])]
            ELSE h ]

\* the inner try/catch: a rejected fetch or an unreadable body is caught, and
\* only an ok answer that carries injuryData changes the mock games
withInjuryData(mockGames, r) ==
    IF r.kind = "json" /\ r.injuryData.defined
    THEN attachInjuryData(mockGames, r.injuryData.byTeam)
    ELSE mockGames

InitHome ==
    /\ AdjustIdle
    /\ data = <<>>
    /\ tz = 0
    /\ RestIdle
    /\ GoalieIdle
    /\ RouteIdle
    /\ cron = CronIdle
    /\ sim = SimIdle
    /\ \E a \in {"v1", "v2"}, r \in ApiResponses, j \in ApiResponses, m \in MockLists :
         page = [HomeIdle EXCEPT !.pc = "start", !.api = a, !.response = r,
                                 !.injuryResponse = j, !.mock = m]

\* the effect runs loadGames: setIsLoading(true) and the first await
HomeLoadGames ==
    /\ page.pc = "start"
    /\ page' = [page EXCEPT !.pc = "fetching", !.isLoading = TRUE]
    /\ UNCHANGED <<adjustVars, restVars, goalieVars, routeVars, cron, sim>>

\* fetchUpcomingGames settles: the API list is used, or the outer catch sets
\* the mock list, or the mock list waits for the injury fetch
HomeGamesArrive ==
    /\ page.pc = "fetching"
    /\ LET f == fetchUpcomingGames(page.api, page.response)
       IN  page' =
             IF f.threw
             THEN [page EXCEPT !.pc = "done", !.upcomingGames = page.mock,
                               !.isLoading = FALSE]
             ELSE IF Len(f.games) > 0
             THEN [page EXCEPT !.pc = "done", !.upcomingGames = f.games,
                               !.isLoading = FALSE]
             ELSE [page EXCEPT !.pc = "injuries"]
    /\ UNCHANGED <<adjustVars, restVars, goalieVars, routeVars, cron, sim>>

\* the injury fetch settles: setUpcomingGames(mockGames) and the finally block
HomeInjuriesArrive ==
    /\ page.pc = "injuries"
    /\ page' = [page EXCEPT !.pc = "done",
                            !.upcomingGames = withInjuryData(page.mock, page.injuryResponse),
                            !.isLoading = FALSE]
    /\ UNCHANGED <<adjustVars, restVars, goalieVars, routeVars, cron, sim>>

NextHome == HomeLoadGames \/ HomeGamesArrive \/ HomeInjuriesArrive

\* every fetch settles, and the continuation of a settled promise is run
SpecHome == InitHome /\ [][NextHome]_vars /\ WF_vars(NextHome)

\* ------------------------------------------------------------------------
\* C24: loadGames always finishes with isLoading = false; upcomingGames is
\* then the API's list when the API returned at least one game, and the mock
\* list when it returned none or the fetch threw; a failed injury fetch leaves
\* the mock list as generated.
\* ------------------------------------------------------------------------

IdsOf(gs) == [ i \in 1..Len(gs) |-> gs[i].id ]

ApiReturnedGames == page.response.kind = "json" /\ Len(page.response.games) > 0

LoadGamesOutcome ==
    /\ ~page.isLoading
    /\ ApiReturnedGames => page.upcomingGames = page.response.games
    /\ ~ApiReturnedGames => IdsOf(page.upcomingGames) = IdsOf(page.mock)
    /\ (~ApiReturnedGames /\ page.injuryResponse.kind # "json") =>
           page.upcomingGames = page.mock

C24_LoadGamesSettles ==
    /\ [](page.pc = "done" => LoadGamesOutcome)
    /\ <>(page.pc = "done")

\* the API answered 200 with no games, the injury fetch was rejected, and the
\* two mock games were set with loading switched off
C24_Witness ==
    /\ page.pc = "done"
    /\ page.response.kind = "json"
    /\ page.response.games = <<>>
    /\ page.injuryResponse.kind = "rejected"
    /\ Len(page.upcomingGames) = 2
    /\ page.upcomingGames = page.mock
    /\ ~page.isLoading

\* ------------------------------------------------------------------------
\* SimulatorView: the game being edited and the probability shown
\* ------------------------------------------------------------------------

MaxSimInjuries == 1   \* the injury inputs range over 0 .. MaxSimInjuries

\* the game the page passes in: as the route built it, with both probabilities
\* equal, or with currentWinProb missing
SimGames ==
    { [id |-> "g", baseWinProb |-> b, currentWinProb |-> c,
       homeGoalie |-> hg, awayGoalie |-> "starter",
       homeRestDays |-> "fresh", awayRestDays |-> "fresh",
       homeInjuries |-> 0, awayInjuries |-> 0,
       isHomeBackToBack |-> FALSE, isAwayBackToBack |-> FALSE] :
        b \in {50, 90}, c \in {0, 50, 90}, hg \in {"starter", "backup"} }

\* the six controls: updateGame({ field: value })
SimUpdates(g) ==
    { [g EXCEPT !.homeGoalie = v] : v \in GoalieTypes }
      \cup { [g EXCEPT !.awayGoalie = v] : v \in GoalieTypes }
      \cup { [g EXCEPT !.homeRestDays = v] : v \in RestStatuses }
      \cup { [g EXCEPT !.awayRestDays = v] : v \in RestStatuses }
      \cup { [g EXCEPT !.homeInjuries = v] : v \in 0..MaxSimInjuries }
      \cup { [g EXCEPT !.awayInjuries = v] : v \in 0..MaxSimInjuries }

\* the effect of lines 285-333, run after a render in which one of its
\* dependencies changed; onUpdate changes only the parent's copy, whose id is
\* the same, so the view's own game is not replaced
winProbEffect(s) ==
    IF s.isUpdatingRef THEN s
    ELSE LET newProb == calculateWinProb(s.game)
             currentProb == IF s.game.currentWinProb # 0 THEN s.game.currentWinProb
                            ELSE s.game.baseWinProb
             diff == IF newProb >= currentProb THEN newProb - currentProb
                     ELSE currentProb - newProb
         IN  IF newProb = s.prevWinProbRef THEN s
             ELSE [s EXCEPT !.winProb = newProb,
                            !.prevWinProbRef = newProb,
                            !.isUpdatingRef = 2 * diff > 1]

InitSim ==
    /\ AdjustIdle
    /\ data = <<>>
    /\ tz = 0
    /\ RestIdle
    /\ GoalieIdle
    /\ RouteIdle
    /\ cron = CronIdle
    /\ page = HomeIdle
    /\ \E g \in SimGames :
         sim = [SimIdle EXCEPT !.pc = "start", !.game = g,
                               !.winProb = g.baseWinProb,
                               !.prevWinProbRef = g.baseWinProb]

\* the first render: the state and the refs start from baseWinProb, and the
\* effect runs once
SimMount ==
    /\ sim.pc = "start"
    /\ sim' = winProbEffect([sim EXCEPT !.pc = "mounted"])
    /\ UNCHANGED <<adjustVars, restVars, goalieVars, routeVars, cron, page>>

\* a control is changed: setGame, the render, and the effect
SimChangeControl ==
    /\ sim.pc = "mounted"
    /\ \E g \in SimUpdates(sim.game) \ {sim.game} :
         sim' = winProbEffect([sim EXCEPT !.game = g])
    /\ UNCHANGED <<adjustVars, restVars, goalieVars, routeVars, cron, page>>

\* setTimeout(() => { isUpdatingRef.current = false }, 100): a ref changes, so
\* nothing is rendered and no effect runs
SimGuardExpires ==
    /\ sim.pc = "mounted"
    /\ sim.isUpdatingRef
    /\ sim' = [sim EXCEPT !.isUpdatingRef = FALSE]
    /\ UNCHANGED <<adjustVars, restVars, goalieVars, routeVars, cron, page>>

NextSim == SimMount \/ SimChangeControl \/ SimGuardExpires

SpecSim == InitSim /\ [][NextSim]_vars

\* ------------------------------------------------------------------------
\* C23: after any sequence of control changes, also ones made while the
\* 100 ms guard is set, the probability shown ends up equal to
\* calculateWinProb of the current game: once the guard has expired and no
\* change is pending, winProb is calculateWinProb(game).
\* ------------------------------------------------------------------------

C23_ShownProbIsCurrent ==
    (sim.pc = "mounted" /\ ~sim.isUpdatingRef) =>
        sim.winProb = calculateWinProb(sim.game)

====
